---- MODULE Spec2Model ----
(***************************************************************************)
(* Voice agent backend: the socket.io server (server.ts), the singleton    *)
(* VoiceAgent (agent/voice-agent.ts), the singleton ToolRegistry           *)
(* (tools/registry.ts), the response pipeline and the frontend socket      *)
(* handlers (App.tsx).  One step of the model is one turn of the node      *)
(* event loop: a socket event handler, a timer callback or the resumption  *)
(* of an awaited backend call, run up to its next suspension point.        *)
(***************************************************************************)
EXTENDS Integers, Sequences, FiniteSets, TLC

\* ---------------------------------------------------------------- bounds
Sockets == {"s1", "s2"}          \* socket.id values, one per connection
MaxRuns == 2                     \* utterances sent in one behaviour
MaxToolCalls == 1                \* tool_calls returned by one router reply
MaxEpochs == 1                   \* clock advances of TimeoutMs
MaxSubTicks == 1                 \* clock advances of 1 ms inside an epoch
MaxTurns == 11                   \* utterances of a client that speaks in turn
MaxAnyToolCalls == 2             \* tool_calls of a router reply with any arguments
MaxInFlight == 2                 \* events in flight between any server and one App

\* ------------------------------------------------------- program constants
TimeoutMs == 10000               \* server.ts:107
HistoryClearThreshold == 4       \* voice-agent.ts:131
HistoryKeep == 2                 \* voice-agent.ts:132
maxHistoryLength == 10           \* voice-agent.ts:32

Runs == 1..MaxRuns
NoSocket == "none"
Undefined == <<>>                \* an absent payload
NoError == ""                    \* an absent (or empty) error string

VARIABLES
  sockState,                \* socket.id -> "new" | "connected" | "disconnected"
  frontendToolEmitter,      \* toolRegistry.frontendToolEmitter: the socket of the closure, or NoSocket
  pendingToolExecutions,    \* per connection: executionId -> promise (its resolve/reject pair)
  timers,                   \* armed setTimeout callbacks
  promises,                 \* the promises created by the emitter
  now,                      \* Date.now()
  conversationHistory,      \* voiceAgent.conversationHistory
  runs,                     \* the user-message handler invocations (async call stacks)
  nextUtterance,            \* number of utterances the clients have sent
  toClient,                 \* server -> client events in flight, per socket
  toServer,                 \* client -> server events in flight, per socket
  isProcessing,             \* App state isProcessing, per client
  app,                      \* the sockets whose peer is the App frontend (the others: any client)
  discarded,                \* a tool-result for an absent executionId has been received and dropped
  startup,                  \* startServer: where the process is on its way to listening
  pipeline,                 \* a call of ResponsePipeline.process and what it has done
  conversion                \* a colour handed to colorToHex and what became of it

vars == <<sockState, frontendToolEmitter, pendingToolExecutions, timers, promises, now,
          conversationHistory, runs, nextUtterance, toClient, toServer, isProcessing,
          app, discarded, startup, pipeline, conversion>>

\* ------------------------------------------------------------- strings
\* A string the code inspects (a colour) is the tuple of its characters.
StartsWith(s, c) == Len(s) > 0 /\ s[1] = c

UpperToLower == [A |-> "a", B |-> "b", C |-> "c", D |-> "d", E |-> "e", F |-> "f",
                 G |-> "g", H |-> "h", I |-> "i", J |-> "j", K |-> "k", L |-> "l",
                 M |-> "m", N |-> "n", O |-> "o", P |-> "p", Q |-> "q", R |-> "r",
                 S |-> "s", T |-> "t", U |-> "u", V |-> "v", W |-> "w", X |-> "x",
                 Y |-> "y", Z |-> "z"]

toLowerCase(s) == [i \in 1..Len(s) |->
                     IF s[i] \in DOMAIN UpperToLower THEN UpperToLower[s[i]] ELSE s[i]]

colorMap ==
  ( <<"r","e","d">>             :> <<"#","F","F","0","0","0","0">> ) @@
  ( <<"b","l","u","e">>         :> <<"#","0","0","0","0","F","F">> ) @@
  ( <<"g","r","e","e","n">>     :> <<"#","0","0","F","F","0","0">> ) @@
  ( <<"y","e","l","l","o","w">> :> <<"#","F","F","F","F","0","0">> ) @@
  ( <<"o","r","a","n","g","e">> :> <<"#","F","F","A","5","0","0">> ) @@
  ( <<"p","u","r","p","l","e">> :> <<"#","8","0","0","0","8","0">> ) @@
  ( <<"p","i","n","k">>         :> <<"#","F","F","C","0","C","B">> ) @@
  ( <<"c","y","a","n">>         :> <<"#","0","0","F","F","F","F">> ) @@
  ( <<"b","l","a","c","k">>     :> <<"#","0","0","0","0","0","0">> ) @@
  ( <<"w","h","i","t","e">>     :> <<"#","F","F","F","F","F","F">> ) @@
  ( <<"g","r","a","y">>         :> <<"#","8","0","8","0","8","0">> ) @@
  ( <<"g","r","e","y">>         :> <<"#","8","0","8","0","8","0">> ) @@
  ( <<"d","a","r","k">>         :> <<"#","1","a","1","a","1","a">> ) @@
  ( <<"l","i","g","h","t">>     :> <<"#","f","5","f","5","f","5">> )

\* colorMap is an object literal: a lookup that finds no own property goes on
\* to Object.prototype, whose properties with an all-lowercase name are
\* constructor (the function Object) and __proto__ (Object.prototype itself).
\* These values are no strings; they are written as one-element tuples.
ObjectFunction == <<"function Object">>
ObjectPrototypeObject == <<"Object.prototype">>
NotAString == {ObjectFunction, ObjectPrototypeObject}

ObjectPrototype ==
  ( <<"c","o","n","s","t","r","u","c","t","o","r">> :> ObjectFunction ) @@
  ( <<"_","_","p","r","o","t","o","_","_">>         :> ObjectPrototypeObject )

\* registry.ts colorToHex, for a string argument:
\* colorMap[color.toLowerCase()] || color
colorToHex(color) ==
  IF StartsWith(color, "#") THEN color
  ELSE IF toLowerCase(color) \in DOMAIN colorMap
       THEN colorMap[toLowerCase(color)]
       ELSE IF toLowerCase(color) \in DOMAIN ObjectPrototype
            THEN ObjectPrototype[toLowerCase(color)]
            ELSE color

\* ------------------------------------------------------------- values
\* A JavaScript value of the kinds the tool arguments take.
StringValue(s) == [t |-> "string", v |-> s]
UndefinedValue == [t |-> "undefined", v |-> <<>>]
NumberValue == [t |-> "number", v |-> <<>>]

Blue == <<"b","l","u","e">>

\* ToolExecutionResult (registry.ts:8)
Failure(error) == [success |-> FALSE, result |-> Undefined, error |-> error]
Success(result) == [success |-> TRUE, result |-> result, error |-> NoError]

\* A tool call of the router reply: function.name and function.arguments, the
\* arguments either an object or a string holding JSON (valid or not).
ToolCallOf(name, form, color) == [name |-> name, form |-> form, color |-> color]

ToolCallInputs ==
  { ToolCallOf("changeBackgroundColor", "object", StringValue(Blue)),
    ToolCallOf("playMusic", "object", UndefinedValue),
    ToolCallOf("changeBackgroundColor", "badjson", UndefinedValue) }

SeqsUpTo(S, n) == UNION {[1..m -> S] : m \in 0..n}

\* What routerProvider.chat can do: throw, or return a message with tool_calls.
RouterOutputs == {[ok |-> FALSE, tool_calls |-> <<>>]} \cup
                 {[ok |-> TRUE, tool_calls |-> tcs] : tcs \in SeqsUpTo(ToolCallInputs, MaxToolCalls)}

\* Tool calls with any arguments: a colour that is missing or no string, the
\* arguments as a JSON string, an unregistered name
AnyToolCallInputs ==
  ToolCallInputs \cup
  { ToolCallOf("changeBackgroundColor", "object", UndefinedValue),
    ToolCallOf("changeBackgroundColor", "object", NumberValue),
    ToolCallOf("changeBackgroundColor", "json", StringValue(<<"R","e","d">>)) }

AnyRouterOutputs == {[ok |-> FALSE, tool_calls |-> <<>>]} \cup
                    {[ok |-> TRUE, tool_calls |-> tcs] :
                       tcs \in SeqsUpTo(AnyToolCallInputs, MaxAnyToolCalls)}

ClockValues == {e * TimeoutMs + j : e \in 0..MaxEpochs, j \in 0..MaxSubTicks}

\* `${socket.id}-${Date.now()}`
ExecutionIdOf(s, t) == <<s, t>>

ExecutionIds == {ExecutionIdOf(s, t) : s \in Sockets, t \in ClockValues}

\* ------------------------------------------------------------- maps
EmptyMap == <<>>
MapHas(m, key) == key \in DOMAIN m
MapSet(m, key, val) == [x \in (DOMAIN m) \cup {key} |-> IF x = key THEN val ELSE m[x]]
MapDelete(m, key) == [x \in (DOMAIN m) \ {key} |-> m[x]]

\* ------------------------------------------------------------- messages
Msg(type, run, executionId, toolName, color, success, result, error) ==
  [type |-> type, run |-> run, executionId |-> executionId, toolName |-> toolName,
   color |-> color, success |-> success, result |-> result, error |-> error]

NoId == <<"", 0>>
AgentProcessingMsg(r) == Msg("agent-processing", r, NoId, "", <<>>, FALSE, Undefined, NoError)
AgentResponseMsg(r) == Msg("agent-response", r, NoId, "", <<>>, TRUE, Undefined, NoError)
AgentErrorMsg(r, cause) == Msg("agent-error", r, NoId, "", <<>>, FALSE, Undefined, cause)
ExecuteToolMsg(executionId, toolName, color) ==
  Msg("execute-tool", 0, executionId, toolName, color, FALSE, Undefined, NoError)
UserMessageMsg(r) == Msg("user-message", r, NoId, "", <<>>, FALSE, Undefined, NoError)
ToolResultMsg(executionId, success, result, error) ==
  Msg("tool-result", 0, executionId, "", <<>>, success, result, error)

\* socket.emit on the server: an event for a closed connection is discarded
Emit(s, msg) ==
  IF s \in app /\ sockState[s] = "connected" THEN [toClient EXCEPT ![s] = Append(@, msg)] ELSE toClient

\* ------------------------------------------------------------- promises
NewPromise == [state |-> "pending", value |-> Failure(NoError), error |-> NoError,
               resolveCalls |-> 0, rejectCalls |-> 0]

CapCalls(n) == IF n < 2 THEN n + 1 ELSE n

\* resolve(value) of promise p: only the first settlement has an effect
Resolve(ps, p, value) ==
  [ps EXCEPT ![p] = IF @.state = "pending"
                    THEN [@ EXCEPT !.state = "resolved", !.value = value,
                                   !.resolveCalls = CapCalls(@)]
                    ELSE [@ EXCEPT !.resolveCalls = CapCalls(@)]]

\* reject(new Error(message)) of promise p
Reject(ps, p, message) ==
  [ps EXCEPT ![p] = IF @.state = "pending"
                    THEN [@ EXCEPT !.state = "rejected", !.error = message,
                                   !.rejectCalls = CapCalls(@)]
                    ELSE [@ EXCEPT !.rejectCalls = CapCalls(@)]]

\* ------------------------------------------------------------- registry
\* JSON.parse of the arguments when they are a string (voice-agent.ts:101-103)
ParseThrows(tc) == tc.form = "badjson"

\* Mutant: an unregistered name is reported as done
executeToolAcceptsUnknown(tc) ==
  IF tc.name # "changeBackgroundColor"
  THEN [kind |-> "result", result |-> Success(Undefined), color |-> <<>>]
  ELSE IF frontendToolEmitter = NoSocket
  THEN [kind |-> "result", result |-> Failure("Frontend tool emitter not configured"),
        color |-> <<>>]
  ELSE IF tc.color.t # "string"
  THEN [kind |-> "result", result |-> Failure("TypeError"), color |-> <<>>]
  ELSE [kind |-> "delegate", result |-> Failure(NoError), color |-> colorToHex(tc.color.v)]

\* Mutant: the TypeError of colorToHex escapes the registry
executeToolThrowsTypeError(tc) ==
  IF tc.name # "changeBackgroundColor"
  THEN [kind |-> "result", result |-> Failure("Unknown tool: " \o tc.name), color |-> <<>>]
  ELSE IF frontendToolEmitter = NoSocket
  THEN [kind |-> "result", result |-> Failure("Frontend tool emitter not configured"),
        color |-> <<>>]
  ELSE IF tc.color.t # "string"
  THEN [kind |-> "throw", result |-> Failure("TypeError"), color |-> <<>>]
  ELSE [kind |-> "delegate", result |-> Failure(NoError), color |-> colorToHex(tc.color.v)]

\* Mutant: the colour is handed to the frontend whatever it is
executeToolDelegatesAnyColor(tc) ==
  IF tc.name # "changeBackgroundColor"
  THEN [kind |-> "result", result |-> Failure("Unknown tool: " \o tc.name), color |-> <<>>]
  ELSE IF frontendToolEmitter = NoSocket
  THEN [kind |-> "result", result |-> Failure("Frontend tool emitter not configured"),
        color |-> <<>>]
  ELSE [kind |-> "delegate", result |-> Failure(NoError), color |-> tc.color.v]

\* Mutant: without an emitter the request is reported as an unknown error
executeToolNoEmitterUnknownError(tc) ==
  IF tc.name # "changeBackgroundColor"
  THEN [kind |-> "result", result |-> Failure("Unknown tool: " \o tc.name), color |-> <<>>]
  ELSE IF frontendToolEmitter = NoSocket
  THEN [kind |-> "result", result |-> Failure("Unknown error"), color |-> <<>>]
  ELSE IF tc.color.t # "string"
  THEN [kind |-> "result", result |-> Failure("TypeError"), color |-> <<>>]
  ELSE [kind |-> "delegate", result |-> Failure(NoError), color |-> colorToHex(tc.color.v)]

\* ToolRegistry.executeTool up to its first suspension: a ToolExecutionResult, or
\* the delegation of changeBackgroundColor to the frontend ("delegate").  A colour
\* that is no string makes colorToHex throw a TypeError, which the catch converts.
executeTool(tc) ==
  IF tc.name # "changeBackgroundColor"
  THEN [kind |-> "result", result |-> Failure("Unknown tool: " \o tc.name), color |-> <<>>]
  ELSE IF frontendToolEmitter = NoSocket
  THEN [kind |-> "result", result |-> Failure("Frontend tool emitter not configured"),
        color |-> <<>>]
  ELSE IF tc.color.t # "string"
  THEN [kind |-> "result", result |-> Failure("TypeError"), color |-> <<>>]
  ELSE [kind |-> "delegate", result |-> Failure(NoError), color |-> colorToHex(tc.color.v)]

\* The tool loop of processMessage from call k on, up to the first call that
\* suspends on the frontend, the end of the list, or a throw: of JSON.parse, or
\* of executeTool were it to reject (the catch of processMessage takes both).
RECURSIVE NextStop(_, _, _)
NextStop(tcs, k, results) ==
  IF k > Len(tcs)
  THEN [kind |-> "conv", k |-> k, results |-> results, color |-> <<>>, cause |-> "none"]
  ELSE IF ParseThrows(tcs[k])
  THEN [kind |-> "throw", k |-> k, results |-> results, color |-> <<>>,
        cause |-> "error:parse"]
  ELSE LET x == executeTool(tcs[k]) IN
       IF x.kind = "delegate"
       THEN [kind |-> "await", k |-> k, results |-> results, color |-> x.color,
             cause |-> "none"]
       ELSE IF x.kind = "throw"
       THEN [kind |-> "throw", k |-> k, results |-> results, color |-> <<>>,
             cause |-> "error:tool"]
       ELSE NextStop(tcs, k + 1, Append(results, x.result))

DoneRun(run, outcome) ==
  [pc |-> "done", sock |-> NoSocket, utterance |-> run.utterance, branch |-> run.branch,
   toolCalls |-> <<>>, k |-> 0, toolResults |-> <<>>, outcome |-> outcome]

\* processMessage throws: the pipeline rethrows and the user-message handler's
\* catch emits agent-error (voice-agent.ts:152, response-pipeline.ts:63, server.ts:154)
Abort(r, branch, cause) ==
  /\ runs' = [runs EXCEPT ![r] = DoneRun([@ EXCEPT !.branch = branch], cause)]
  /\ toClient' = Emit(runs[r].sock, AgentErrorMsg(runs[r].utterance, cause))
  /\ UNCHANGED <<pendingToolExecutions, timers, promises>>

\* The executionId the emitter of socket s generates (server.ts:89)
NewExecutionId(s) == ExecutionIdOf(s, now)

\* Mutant: the request is emitted but the id is not recorded
FrontendToolEmitterCallUnrecorded(s, p, toolName, color) ==
  LET executionId == NewExecutionId(s) IN
  /\ promises' = MapSet(promises, p, NewPromise)
  /\ pendingToolExecutions' = pendingToolExecutions
  /\ toClient' = Emit(s, ExecuteToolMsg(executionId, toolName, color))
  /\ timers' = timers \cup {[sock |-> s, executionId |-> executionId, promise |-> p,
                             due |-> now + TimeoutMs]}

\* The emitter closure of socket s (server.ts:85-109), called for promise p
FrontendToolEmitterCall(s, p, toolName, color) ==
  LET executionId == NewExecutionId(s) IN
  /\ promises' = MapSet(promises, p, NewPromise)
  /\ pendingToolExecutions' = [pendingToolExecutions EXCEPT ![s] = MapSet(@, executionId, p)]
  /\ toClient' = Emit(s, ExecuteToolMsg(executionId, toolName, color))
  /\ timers' = timers \cup {[sock |-> s, executionId |-> executionId, promise |-> p,
                             due |-> now + TimeoutMs]}

\* processMessage branch A from tool call k on (voice-agent.ts:97-124)
ContinueTools(r, tcs, k, results) ==
  LET stop == NextStop(tcs, k, results) IN
  IF stop.kind = "await"
  THEN /\ FrontendToolEmitterCall(frontendToolEmitter, <<r, stop.k>>,
                                  "changeBackgroundColor", stop.color)
       /\ runs' = [runs EXCEPT ![r] = [@ EXCEPT !.pc = "tool", !.branch = "A",
                                          !.toolCalls = tcs, !.k = stop.k,
                                          !.toolResults = stop.results]]
  ELSE IF stop.kind = "conv"
  THEN /\ runs' = [runs EXCEPT ![r] = [@ EXCEPT !.pc = "conv", !.branch = "A",
                                          !.toolCalls = tcs, !.k = stop.k,
                                          !.toolResults = stop.results]]
       /\ UNCHANGED <<pendingToolExecutions, timers, promises, toClient>>
  ELSE Abort(r, "A", stop.cause)

IdleRun == [pc |-> "idle", sock |-> NoSocket, utterance |-> 0, branch |-> "none",
            toolCalls |-> <<>>, k |-> 0, toolResults |-> <<>>, outcome |-> "none"]

InitConnections ==
  /\ sockState = [s \in Sockets |-> "new"]
  /\ frontendToolEmitter = NoSocket
  /\ pendingToolExecutions = [s \in Sockets |-> EmptyMap]
  /\ timers = {}
  /\ promises = EmptyMap
  /\ now = 0
  /\ conversationHistory = <<>>
  /\ runs = [r \in Runs |-> IdleRun]
  /\ nextUtterance = 0
  /\ toClient = [s \in Sockets |-> <<>>]
  /\ toServer = [s \in Sockets |-> <<>>]
  /\ isProcessing = [s \in Sockets |-> FALSE]
  /\ discarded = FALSE

\* A ResponsePipeline.process call that has not been made
IdlePipeline == [pc |-> "idle", reply |-> <<>>, ttsCalls |-> <<>>, outcome |-> "none",
                 displayText |-> <<>>, speechText |-> <<>>, ttsText |-> <<>>,
                 error |-> NoError]

NoConversion == [input |-> <<>>, output |-> <<>>, applied |-> 0]

\* startServer has tested both models and called httpServer.listen
NoExit == -1
Listening == [pc |-> "listening", routerConnected |-> TRUE,
              conversationConnected |-> TRUE, exitCode |-> NoExit]

\* The server is listening, no message is being processed
InitServer ==
  /\ InitConnections
  /\ startup = Listening
  /\ pipeline = IdlePipeline
  /\ conversion = NoConversion

Init == InitServer /\ app = {}

\* ------------------------------------------------------------- connections
\* io.on('connection') (server.ts:69-109): a fresh empty pending map for the
\* socket, and the registry's single emitter replaced by this socket's closure.
Connect(s) ==
  /\ sockState[s] = "new"
  /\ sockState' = [sockState EXCEPT ![s] = "connected"]
  /\ pendingToolExecutions' = [pendingToolExecutions EXCEPT ![s] = EmptyMap]
  /\ frontendToolEmitter' = s
  /\ UNCHANGED <<timers, promises, now, conversationHistory, runs, nextUtterance,
                 toClient, toServer, isProcessing, app,
                 startup, pipeline, conversion, discarded>>

\* What the disconnect handler does to the socket's pending map (server.ts:186-188)
DisconnectPending(m) == m

\* socket.on('disconnect'): the transport is gone, the events in flight are lost
Disconnect(s) ==
  /\ sockState[s] = "connected"
  /\ sockState' = [sockState EXCEPT ![s] = "disconnected"]
  /\ pendingToolExecutions' = [pendingToolExecutions EXCEPT ![s] = DisconnectPending(@)]
  /\ toClient' = [toClient EXCEPT ![s] = <<>>]
  /\ toServer' = [toServer EXCEPT ![s] = <<>>]
  /\ isProcessing' = isProcessing
  /\ UNCHANGED <<frontendToolEmitter, timers, promises, now, conversationHistory, runs,
                 nextUtterance, app,
                 startup, pipeline, conversion, discarded>>

\* ------------------------------------------------------------- clock
Tick(d) ==
  /\ d = 1 => (now % TimeoutMs) < MaxSubTicks
  /\ d = TimeoutMs => (now \div TimeoutMs) < MaxEpochs
  /\ now' = now + d
  /\ UNCHANGED <<sockState, frontendToolEmitter, pendingToolExecutions, timers, promises,
                 conversationHistory, runs, nextUtterance, toClient, toServer,
                 isProcessing, app,
                 startup, pipeline, conversion, discarded>>

\* ------------------------------------------------------------- frontend
\* App.handleSendMessage (App.tsx): the guard, then socket.emit('user-message')
HandleSendMessage(s) ==
  /\ s \in app
  /\ sockState[s] = "connected"
  /\ ~isProcessing[s]
  /\ nextUtterance < MaxRuns
  /\ nextUtterance' = nextUtterance + 1
  /\ toServer' = [toServer EXCEPT ![s] = Append(@, UserMessageMsg(nextUtterance + 1))]
  /\ UNCHANGED <<sockState, frontendToolEmitter, pendingToolExecutions, timers, promises,
                 now, conversationHistory, runs, toClient, isProcessing, app,
                 startup, pipeline, conversion, discarded>>

\* An execute-tool event without parameters (the server always sends them)
NoParameters == <<"no parameters">>

\* Mutant: the failure replies do not name the execution
ExecuteToolReplyLosesId(msg) ==
  IF msg.toolName = "changeBackgroundColor"
  THEN IF msg.color = NoParameters
       THEN ToolResultMsg(NoId, FALSE, Undefined, "TypeError")
       ELSE ToolResultMsg(msg.executionId, TRUE,
                          <<"Background color changed to", msg.color>>, NoError)
  ELSE ToolResultMsg(NoId, FALSE, Undefined, "Unknown tool: " \o msg.toolName)

\* The reply of the frontend's execute-tool handler (App.tsx execute-tool): reading
\* parameters.color of absent parameters throws, and the catch replies the failure
ExecuteToolReply(msg) ==
  IF msg.toolName = "changeBackgroundColor"
  THEN IF msg.color = NoParameters
       THEN ToolResultMsg(msg.executionId, FALSE, Undefined, "TypeError")
       ELSE ToolResultMsg(msg.executionId, TRUE,
                          <<"Background color changed to", msg.color>>, NoError)
  ELSE ToolResultMsg(msg.executionId, FALSE, Undefined, "Unknown tool: " \o msg.toolName)

\* The client receives the next server event: agent-processing, agent-response,
\* agent-error or execute-tool
ClientReceive(s) ==
  /\ sockState[s] = "connected"
  /\ toClient[s] # <<>>
  /\ LET msg == Head(toClient[s]) IN
       /\ toClient' = [toClient EXCEPT ![s] = Tail(@)]
       /\ isProcessing' = [isProcessing EXCEPT ![s] =
                             IF msg.type = "agent-processing" THEN TRUE
                             ELSE IF msg.type \in {"agent-response", "agent-error"} THEN FALSE
                             ELSE @]
       /\ toServer' = IF msg.type = "execute-tool"
                      THEN [toServer EXCEPT ![s] = Append(@, ExecuteToolReply(msg))]
                      ELSE toServer
  /\ UNCHANGED <<sockState, frontendToolEmitter, pendingToolExecutions, timers, promises,
                 now, conversationHistory, runs, nextUtterance, app,
                 startup, pipeline, conversion, discarded>>

\* ------------------------------------------------------------- correlator
\* Mutant: a tool-result for an absent id drops whatever is pending
ToolResultPendingClearsOnMiss(m, data) ==
  IF MapHas(m, data.executionId) THEN MapDelete(m, data.executionId) ELSE EmptyMap

\* socket.on('tool-result') of socket s (server.ts:112-128): the pending map after
ToolResultPending(m, data) ==
  IF MapHas(m, data.executionId) THEN MapDelete(m, data.executionId) ELSE m

\* Mutant: a failure reply resolves the promise like a success reply
ToolResultPromisesAlwaysResolve(m, ps, data) ==
  IF MapHas(m, data.executionId)
  THEN Resolve(ps, m[data.executionId], Success(data.result))
  ELSE ps

\* ... and the promises after
ToolResultPromises(m, ps, data) ==
  IF MapHas(m, data.executionId)
  THEN IF data.success
       THEN Resolve(ps, m[data.executionId], Success(data.result))
       ELSE Reject(ps, m[data.executionId],
                   IF data.error # NoError THEN data.error ELSE "Tool execution failed")
  ELSE ps

ToolResultHandler(s, data) ==
  /\ pendingToolExecutions' = [pendingToolExecutions EXCEPT ![s] = ToolResultPending(@, data)]
  /\ promises' = ToolResultPromises(pendingToolExecutions[s], promises, data)
  /\ discarded' = (discarded \/ ~MapHas(pendingToolExecutions[s], data.executionId))

\* The server receives the client's next event when it is a tool-result
OnToolResult(s) ==
  /\ sockState[s] = "connected"
  /\ toServer[s] # <<>>
  /\ Head(toServer[s]).type = "tool-result"
  /\ ToolResultHandler(s, Head(toServer[s]))
  /\ toServer' = [toServer EXCEPT ![s] = Tail(@)]
  /\ UNCHANGED <<sockState, frontendToolEmitter, timers, now, conversationHistory, runs,
                 nextUtterance, toClient, isProcessing, app,
                 startup, pipeline, conversion>>

\* tool-result events a peer can send on its own: any id, a repeated reply, a failure
PeerToolResults ==
  {ToolResultMsg(id, TRUE, <<"Background color changed to", colorToHex(Blue)>>, NoError) :
     id \in ExecutionIds} \cup
  {ToolResultMsg(id, FALSE, Undefined, NoError) : id \in ExecutionIds}

OnPeerToolResult(s, data) ==
  /\ s \notin app
  /\ sockState[s] = "connected"
  /\ ToolResultHandler(s, data)
  /\ UNCHANGED <<sockState, frontendToolEmitter, timers, now, conversationHistory, runs,
                 nextUtterance, toClient, toServer, isProcessing, app,
                 startup, pipeline, conversion>>

\* The setTimeout callback of a call (server.ts:102-107): the pending map after
TimeoutPending(m, executionId) ==
  IF MapHas(m, executionId) THEN MapDelete(m, executionId) ELSE m

\* ... and the promises after; p is the promise whose reject the closure holds
TimeoutPromises(m, ps, executionId, p) ==
  IF MapHas(m, executionId) THEN Reject(ps, p, "Tool execution timeout") ELSE ps

\* A timer fires no earlier than its delay
TimerDue(t) == now >= t.due

TimerFires(t) ==
  /\ t \in timers
  /\ TimerDue(t)
  /\ timers' = timers \ {t}
  /\ pendingToolExecutions' = [pendingToolExecutions EXCEPT ![t.sock] =
                                 TimeoutPending(@, t.executionId)]
  /\ promises' = TimeoutPromises(pendingToolExecutions[t.sock], promises, t.executionId,
                                 t.promise)
  /\ UNCHANGED <<sockState, frontendToolEmitter, now, conversationHistory, runs,
                 nextUtterance, toClient, toServer, isProcessing, app,
                 startup, pipeline, conversion, discarded>>

\* ------------------------------------------------------------- orchestrator
addToHistory(h, role, content) == Append(h, [role |-> role, content |-> content])

\* Mutant: the catch takes the last turn back
HistoryAfterThrowRollsBack(h) == SubSeq(h, 1, Len(h) - 1)

\* What the catch of processMessage does to the history (voice-agent.ts:152-155):
\* it logs and rethrows, the user turn added at the start stays
HistoryAfterThrow(h) == h

\* Mutant: the oldest entries are kept
ClearOldHistoryKeepsOldest(h) ==
  IF Len(h) > HistoryClearThreshold
  THEN SubSeq(h, 1, HistoryKeep)
  ELSE h

\* "Clear old history" of branch A (voice-agent.ts:131-133)
ClearOldHistory(h) ==
  IF Len(h) > HistoryClearThreshold
  THEN SubSeq(h, Len(h) - HistoryKeep + 1, Len(h))
  ELSE h

\* socket.on('user-message') up to the await of the router (server.ts:133-142,
\* response-pipeline.ts:33-42, voice-agent.ts:77-90)
\* r is the invocation, u the utterance it carries
UserMessageHandler(s, r, u) ==
  /\ toClient' = Emit(s, AgentProcessingMsg(u))
  /\ conversationHistory' = addToHistory(conversationHistory, "user", u)
  /\ runs' = [runs EXCEPT ![r] = [IdleRun EXCEPT !.pc = "router", !.sock = s,
                                                  !.utterance = u]]

\* The server receives the App's next event when it is a user-message
OnUserMessage(s) ==
  /\ sockState[s] = "connected"
  /\ toServer[s] # <<>>
  /\ Head(toServer[s]).type = "user-message"
  /\ UserMessageHandler(s, Head(toServer[s]).run, Head(toServer[s]).run)
  /\ toServer' = [toServer EXCEPT ![s] = Tail(@)]
  /\ UNCHANGED <<sockState, frontendToolEmitter, pendingToolExecutions, timers, promises,
                 now, nextUtterance, isProcessing, app,
                 startup, pipeline, conversion, discarded>>

\* A client other than the App sends a user-message, at any time
OnPeerUserMessage(s) ==
  /\ s \notin app
  /\ sockState[s] = "connected"
  /\ nextUtterance < MaxRuns
  /\ nextUtterance' = nextUtterance + 1
  /\ UserMessageHandler(s, nextUtterance + 1, nextUtterance + 1)
  /\ UNCHANGED <<sockState, frontendToolEmitter, pendingToolExecutions, timers, promises,
                 now, toServer, isProcessing, app,
                 startup, pipeline, conversion, discarded>>

\* Mutant: a reply without tool calls still asks the frontend to act
RouterReturnsAlwaysDelegates(r, out) ==
  /\ runs[r].pc = "router"
  /\ IF ~out.ok THEN Abort(r, "none", "error:router")
     ELSE IF Len(out.tool_calls) > 0 THEN ContinueTools(r, out.tool_calls, 1, <<>>)
     ELSE /\ runs' = [runs EXCEPT ![r] = [@ EXCEPT !.pc = "conv", !.branch = "B"]]
          /\ FrontendToolEmitterCall(runs[r].sock, <<r, 1>>, "changeBackgroundColor", Blue)
  /\ conversationHistory' = IF runs'[r].pc = "done"
                            THEN HistoryAfterThrow(conversationHistory)
                            ELSE conversationHistory
  /\ UNCHANGED <<sockState, frontendToolEmitter, now, nextUtterance,
                 toServer, isProcessing, app,
                 startup, pipeline, conversion, discarded>>

\* Mutant: the router's reply is recorded in the history
RouterReturnsRecordsDecision(r, out) ==
  /\ runs[r].pc = "router"
  /\ IF ~out.ok THEN Abort(r, "none", "error:router")
     ELSE IF Len(out.tool_calls) > 0 THEN ContinueTools(r, out.tool_calls, 1, <<>>)
     ELSE /\ runs' = [runs EXCEPT ![r] = [@ EXCEPT !.pc = "conv", !.branch = "B"]]
          /\ UNCHANGED <<pendingToolExecutions, timers, promises, toClient>>
  /\ conversationHistory' = IF runs'[r].pc = "done"
                            THEN HistoryAfterThrow(conversationHistory)
                            ELSE addToHistory(conversationHistory, "assistant",
                                              runs[r].utterance)
  /\ UNCHANGED <<sockState, frontendToolEmitter, now, nextUtterance,
                 toServer, isProcessing, app,
                 startup, pipeline, conversion, discarded>>

\* Mutant: the router reply is taken up only when no delegated call is outstanding
RouterReturnsWaitsForCalls(r, out) ==
  /\ runs[r].pc = "router"
  /\ \A p \in DOMAIN promises : promises[p].state # "pending"
  /\ IF ~out.ok THEN Abort(r, "none", "error:router")
     ELSE IF Len(out.tool_calls) > 0 THEN ContinueTools(r, out.tool_calls, 1, <<>>)
     ELSE /\ runs' = [runs EXCEPT ![r] = [@ EXCEPT !.pc = "conv", !.branch = "B"]]
          /\ UNCHANGED <<pendingToolExecutions, timers, promises, toClient>>
  /\ conversationHistory' = IF runs'[r].pc = "done"
                            THEN HistoryAfterThrow(conversationHistory)
                            ELSE conversationHistory
  /\ UNCHANGED <<sockState, frontendToolEmitter, now, nextUtterance,
                 toServer, isProcessing, app,
                 startup, pipeline, conversion, discarded>>

\* routerProvider.chat settles (voice-agent.ts:90-114, 138-143)
RouterReturns(r, out) ==
  /\ runs[r].pc = "router"
  /\ IF ~out.ok THEN Abort(r, "none", "error:router")
     ELSE IF Len(out.tool_calls) > 0 THEN ContinueTools(r, out.tool_calls, 1, <<>>)
     ELSE /\ runs' = [runs EXCEPT ![r] = [@ EXCEPT !.pc = "conv", !.branch = "B"]]
          /\ UNCHANGED <<pendingToolExecutions, timers, promises, toClient>>
  /\ conversationHistory' = IF runs'[r].pc = "done"
                            THEN HistoryAfterThrow(conversationHistory)
                            ELSE conversationHistory
  /\ UNCHANGED <<sockState, frontendToolEmitter, now, nextUtterance,
                 toServer, isProcessing, app,
                 startup, pipeline, conversion, discarded>>

\* Mutant: the catch loses the message of the rejection
DelegatedResultLosesError(p) ==
  IF p.state = "resolved" THEN p.value ELSE Failure("Unknown error")

\* The result executeChangeBackgroundColor returns for a settled emitter promise
\* (registry.ts:69-77)
DelegatedResult(p) ==
  IF p.state = "resolved" THEN p.value ELSE Failure(p.error)

\* Mutant: a call that failed is dispatched again
ToolSettledRetries(r) ==
  /\ runs[r].pc = "tool"
  /\ promises[<<r, runs[r].k>>].state # "pending"
  /\ IF promises[<<r, runs[r].k>>].state = "rejected"
     THEN ContinueTools(r, runs[r].toolCalls, runs[r].k, runs[r].toolResults)
     ELSE ContinueTools(r, runs[r].toolCalls, runs[r].k + 1,
                        Append(runs[r].toolResults,
                               DelegatedResult(promises[<<r, runs[r].k>>])))
  /\ conversationHistory' = IF runs'[r].pc = "done"
                            THEN HistoryAfterThrow(conversationHistory)
                            ELSE conversationHistory
  /\ UNCHANGED <<sockState, frontendToolEmitter, now, nextUtterance,
                 toServer, isProcessing, app,
                 startup, pipeline, conversion, discarded>>

\* The awaited emitter promise of run r has settled: the tool loop goes on
ToolSettled(r) ==
  /\ runs[r].pc = "tool"
  /\ promises[<<r, runs[r].k>>].state # "pending"
  /\ ContinueTools(r, runs[r].toolCalls, runs[r].k + 1,
                   Append(runs[r].toolResults, DelegatedResult(promises[<<r, runs[r].k>>])))
  /\ conversationHistory' = IF runs'[r].pc = "done"
                            THEN HistoryAfterThrow(conversationHistory)
                            ELSE conversationHistory
  /\ UNCHANGED <<sockState, frontendToolEmitter, now, nextUtterance,
                 toServer, isProcessing, app,
                 startup, pipeline, conversion, discarded>>

\* Mutant: the no-action branch forgets the agent turn
HistoryAfterReplyForgetsB(h, branch, u) ==
  IF branch = "A" THEN ClearOldHistory(addToHistory(h, "assistant", u))
  ELSE h

\* The history after the agent turn is added (voice-agent.ts:127-133, 146-147)
HistoryAfterReply(h, branch, u) ==
  IF branch = "A" THEN ClearOldHistory(addToHistory(h, "assistant", u))
  ELSE addToHistory(h, "assistant", u)

\* Mutant: the reply of the conversation model makes the frontend act
ConvReturnsDispatches(r, ok) ==
  /\ runs[r].pc = "conv"
  /\ IF ok
     THEN /\ conversationHistory' = HistoryAfterReply(conversationHistory, runs[r].branch,
                                                       runs[r].utterance)
          /\ runs' = [runs EXCEPT ![r] = DoneRun(@, "ok")]
          /\ FrontendToolEmitterCall(runs[r].sock, <<r, 0>>, "changeBackgroundColor", Blue)
     ELSE /\ Abort(r, runs[r].branch, "error:conv")
          /\ conversationHistory' = HistoryAfterThrow(conversationHistory)
  /\ UNCHANGED <<sockState, frontendToolEmitter, now, nextUtterance, toServer,
                 isProcessing, app,
                 startup, pipeline, conversion, discarded>>

\* conversationProvider.chat settles (voice-agent.ts:124-136, 143-150), then the
\* pipeline and the handler emit agent-response (server.ts:145)
ConvReturns(r, ok) ==
  /\ runs[r].pc = "conv"
  /\ IF ok
     THEN /\ conversationHistory' = HistoryAfterReply(conversationHistory, runs[r].branch,
                                                       runs[r].utterance)
          /\ runs' = [runs EXCEPT ![r] = DoneRun(@, "ok")]
          /\ toClient' = Emit(runs[r].sock, AgentResponseMsg(runs[r].utterance))
          /\ UNCHANGED <<pendingToolExecutions, timers, promises>>
     ELSE /\ Abort(r, runs[r].branch, "error:conv")
          /\ conversationHistory' = HistoryAfterThrow(conversationHistory)
  /\ UNCHANGED <<sockState, frontendToolEmitter, now, nextUtterance, toServer,
                 isProcessing, app,
                 startup, pipeline, conversion, discarded>>

\* socket.on('clear-history') (server.ts:175-181, voice-agent.ts:212-215)
OnClearHistory(s) ==
  /\ sockState[s] = "connected"
  /\ conversationHistory # <<>>
  /\ conversationHistory' = <<>>
  /\ UNCHANGED <<sockState, frontendToolEmitter, pendingToolExecutions, timers, promises,
                 now, runs, nextUtterance, toClient, toServer, isProcessing, app,
                 startup, pipeline, conversion, discarded>>

\* voiceAgent.getHistory() as called for socket s
getHistory(s) == conversationHistory

Running(r) == runs[r].pc \in {"router", "tool", "conv"}

\* The server, its peers any clients
Next ==
  \/ \E s \in Sockets : Connect(s)
  \/ \E s \in Sockets : Disconnect(s)
  \/ \E d \in {1, TimeoutMs} : Tick(d)
  \/ \E s \in Sockets : OnPeerUserMessage(s)
  \/ \E s \in Sockets : \E data \in PeerToolResults : OnPeerToolResult(s, data)
  \/ \E t \in timers : TimerFires(t)
  \/ \E r \in Runs : \E out \in RouterOutputs : RouterReturns(r, out)
  \/ \E r \in Runs : ToolSettled(r)
  \/ \E r \in Runs : \E ok \in BOOLEAN : ConvReturns(r, ok)

Spec == Init /\ [][Next]_vars

\* The server with clear-history requests, the clock standing still
NextHistory ==
  \/ \E s \in Sockets : Connect(s)
  \/ \E s \in Sockets : Disconnect(s)
  \/ \E s \in Sockets : OnPeerUserMessage(s)
  \/ \E s \in Sockets : \E data \in PeerToolResults : OnPeerToolResult(s, data)
  \/ \E r \in Runs : \E out \in RouterOutputs : RouterReturns(r, out)
  \/ \E r \in Runs : ToolSettled(r)
  \/ \E r \in Runs : \E ok \in BOOLEAN : ConvReturns(r, ok)
  \/ \E s \in Sockets : OnClearHistory(s)

SpecHistory == Init /\ [][NextHistory]_vars

\* The server, its peers App frontends
InitApp == InitServer /\ app = Sockets

NextApp ==
  \/ \E s \in Sockets : Connect(s)
  \/ \E s \in Sockets : Disconnect(s)
  \/ \E d \in {1, TimeoutMs} : Tick(d)
  \/ \E s \in Sockets : HandleSendMessage(s)
  \/ \E s \in Sockets : ClientReceive(s)
  \/ \E s \in Sockets : OnToolResult(s)
  \/ \E s \in Sockets : OnUserMessage(s)
  \/ \E t \in timers : TimerFires(t)
  \/ \E r \in Runs : \E out \in RouterOutputs : RouterReturns(r, out)
  \/ \E r \in Runs : ToolSettled(r)
  \/ \E r \in Runs : \E ok \in BOOLEAN : ConvReturns(r, ok)

SpecApp == InitApp /\ [][NextApp]_vars

\* The server, one peer the App and one any client, a single utterance, the
\* router asking for tool calls with any arguments
InitTools == InitServer /\ app = {"s1"}

NextTools ==
  \/ \E s \in Sockets : Connect(s)
  \/ \E s \in Sockets : Disconnect(s)
  \/ \E d \in {1, TimeoutMs} : Tick(d)
  \/ \E s \in Sockets : nextUtterance = 0 /\ HandleSendMessage(s)
  \/ \E s \in Sockets : nextUtterance = 0 /\ OnPeerUserMessage(s)
  \/ \E s \in Sockets : ClientReceive(s)
  \/ \E s \in Sockets : OnToolResult(s)
  \/ \E s \in Sockets : OnUserMessage(s)
  \/ \E s \in Sockets : \E data \in PeerToolResults : OnPeerToolResult(s, data)
  \/ \E t \in timers : TimerFires(t)
  \/ \E r \in Runs : \E out \in AnyRouterOutputs : RouterReturns(r, out)
  \/ \E r \in Runs : ToolSettled(r)
  \/ \E r \in Runs : \E ok \in BOOLEAN : ConvReturns(r, ok)

SpecTools == InitTools /\ [][NextTools]_vars

\* A client that speaks in turn: it sends the next user-message once the reply
\* (or the error) of the previous one is there, and answers the execute-tool
\* requests it is sent.  The clock stands still, so no timer comes due, and the
\* finished invocation's place (and its settled promises') is taken by the next.
OnNextUserMessage(s) ==
  /\ s \notin app
  /\ sockState[s] = "connected"
  /\ nextUtterance < MaxTurns
  /\ \A r \in Runs : ~Running(r)
  /\ nextUtterance' = nextUtterance + 1
  /\ UserMessageHandler(s, 1, nextUtterance + 1)
  /\ UNCHANGED <<sockState, frontendToolEmitter, pendingToolExecutions, timers, promises,
                 now, toServer, isProcessing, app,
                 startup, pipeline, conversion, discarded>>

NextTurns ==
  \/ \E s \in Sockets : Connect(s)
  \/ \E s \in Sockets : OnNextUserMessage(s)
  \/ \E s \in Sockets : \E data \in PeerToolResults :
       MapHas(pendingToolExecutions[s], data.executionId) /\ OnPeerToolResult(s, data)
  \/ \E r \in Runs : \E out \in RouterOutputs : RouterReturns(r, out)
  \/ \E r \in Runs : ToolSettled(r)
  \/ \E r \in Runs : \E ok \in BOOLEAN : ConvReturns(r, ok)

SpecTurns == Init /\ [][NextTurns]_vars

\* The App frontend facing any server: execute-tool events for any tool name,
\* with or without parameters, arrive at any time
AnyExecuteToolMsgs(s) ==
  {ExecuteToolMsg(ExecutionIdOf(s, t), name, color) :
     t \in 0..1, name \in {"changeBackgroundColor", "playMusic"},
     color \in {colorToHex(Blue), NoParameters}}

AnyExecuteTool(s, msg) ==
  /\ s \in app
  /\ sockState[s] = "connected"
  /\ Len(toClient[s]) + Len(toServer[s]) < MaxInFlight
  /\ toClient' = [toClient EXCEPT ![s] = Append(@, msg)]
  /\ UNCHANGED <<sockState, frontendToolEmitter, pendingToolExecutions, timers, promises,
                 now, conversationHistory, runs, nextUtterance, toServer, isProcessing,
                 app,
                 startup, pipeline, conversion, discarded>>

NextPeer ==
  \/ \E s \in Sockets : Connect(s)
  \/ \E s \in Sockets : Disconnect(s)
  \/ \E s \in Sockets : \E msg \in AnyExecuteToolMsgs(s) : AnyExecuteTool(s, msg)
  \/ \E s \in Sockets : ClientReceive(s)
  \/ \E s \in Sockets : OnToolResult(s)

SpecPeer == InitApp /\ [][NextPeer]_vars

\* The test script (test-agent.ts): voiceAgent.processMessage called directly,
\* one call after the other, in a process where no client ever connects, so
\* that no frontend tool emitter is ever configured
ProcessMessageDirect ==
  /\ nextUtterance < MaxRuns
  /\ \A r \in Runs : runs[r].pc = "idle" \/ (runs[r].pc = "done" /\ runs[r].outcome = "ok")
  /\ nextUtterance' = nextUtterance + 1
  /\ conversationHistory' = addToHistory(conversationHistory, "user", nextUtterance + 1)
  /\ runs' = [runs EXCEPT ![nextUtterance + 1] =
                [IdleRun EXCEPT !.pc = "router", !.utterance = nextUtterance + 1]]
  /\ UNCHANGED <<sockState, frontendToolEmitter, pendingToolExecutions, timers, promises,
                 now, toClient, toServer, isProcessing, app, discarded,
                 startup, pipeline, conversion>>

NextTestAgent ==
  \/ ProcessMessageDirect
  \/ \E r \in Runs : \E out \in AnyRouterOutputs : RouterReturns(r, out)
  \/ \E r \in Runs : \E ok \in BOOLEAN : ConvReturns(r, ok)

SpecTestAgent == Init /\ [][NextTestAgent]_vars

\* ------------------------------------------------------------- start
\* The state of the connections and of the orchestrator
serverVars == <<sockState, frontendToolEmitter, pendingToolExecutions, timers, promises, now,
                conversationHistory, runs, nextUtterance, toClient, toServer, isProcessing,
                app, discarded>>

\* startServer() is called when the module is loaded (server.ts:250): the
\* process is awaiting routerProvider.testConnection
Starting == [pc |-> "router-test", routerConnected |-> FALSE,
             conversationConnected |-> FALSE, exitCode |-> NoExit]

InitStart ==
  /\ InitConnections
  /\ app = {}
  /\ startup = Starting
  /\ pipeline = IdlePipeline
  /\ conversion = NoConversion

\* routerProvider.testConnection settles: true, or false (no content, or a throw
\* that it catches); the conversation model is tested next in both cases
\* (voice-agent.ts testConnection)
RouterTestSettles(ok) ==
  /\ startup.pc = "router-test"
  /\ startup' = [startup EXCEPT !.pc = "conversation-test", !.routerConnected = ok]
  /\ UNCHANGED <<serverVars, pipeline, conversion>>

\* Mutant: the server listens whatever the tests said
ConversationTestSettlesListens(ok) ==
  /\ startup.pc = "conversation-test"
  /\ startup' = [startup EXCEPT !.pc = "listening", !.conversationConnected = ok]
  /\ UNCHANGED <<serverVars, pipeline, conversion>>

\* conversationProvider.testConnection settles, testConnection returns the
\* conjunction and startServer listens or exits (server.ts:199-205, 210)
ConversationTestSettles(ok) ==
  /\ startup.pc = "conversation-test"
  /\ startup' = IF startup.routerConnected /\ ok
                THEN [startup EXCEPT !.pc = "listening", !.conversationConnected = ok]
                ELSE [startup EXCEPT !.pc = "exited", !.conversationConnected = ok,
                                     !.exitCode = 1]
  /\ UNCHANGED <<serverVars, pipeline, conversion>>

\* A listening server takes connections and events; a process that has not
\* called listen, or has exited, takes none
AcceptsConnections == startup.pc = "listening"

NextStart ==
  \/ \E ok \in BOOLEAN : RouterTestSettles(ok)
  \/ \E ok \in BOOLEAN : ConversationTestSettles(ok)
  \/ \E s \in Sockets : AcceptsConnections /\ Connect(s)
  \/ \E s \in Sockets : AcceptsConnections /\ Disconnect(s)
  \/ \E s \in Sockets : AcceptsConnections /\ OnPeerUserMessage(s)
  \/ \E s \in Sockets : \E data \in PeerToolResults :
       AcceptsConnections /\ OnPeerToolResult(s, data)
  \/ \E r \in Runs : \E out \in RouterOutputs : AcceptsConnections /\ RouterReturns(r, out)
  \/ \E r \in Runs : AcceptsConnections /\ ToolSettled(r)
  \/ \E r \in Runs : \E ok \in BOOLEAN : AcceptsConnections /\ ConvReturns(r, ok)

SpecStart == InitStart /\ [][NextStart]_vars

\* ------------------------------------------------------------- colours
\* colorToHex applied to a string, and then to what it returned
MaxColorLen == 3
ColorChars == {"#", "r", "e", "d", "D"}
ColorStrings ==
  SeqsUpTo(ColorChars, MaxColorLen) \cup DOMAIN colorMap \cup DOMAIN ObjectPrototype \cup
  { colorMap[c] : c \in DOMAIN colorMap } \cup
  { <<"B","l","u","e">>, <<"G","R","E","Y">>, <<"t","e","a","l">>,
    <<"C","o","n","s","t","r","u","c","t","o","r">> }

InitColor ==
  /\ InitConnections
  /\ app = {}
  /\ startup = Listening
  /\ pipeline = IdlePipeline
  /\ \E c \in ColorStrings : conversion = [NoConversion EXCEPT !.input = c]

\* colorToHex is called: with the colour first, with its own result after.
\* Called with a value that is no string it throws (color.startsWith is not a
\* function).
ApplyColorToHex ==
  /\ conversion.applied < 2
  /\ conversion.output # <<"TypeError">>
  /\ LET arg == IF conversion.applied = 0 THEN conversion.input ELSE conversion.output IN
     conversion' = [conversion EXCEPT !.applied = @ + 1,
                                      !.output = IF arg \in NotAString
                                                 THEN <<"TypeError">>
                                                 ELSE colorToHex(arg)]
  /\ UNCHANGED <<serverVars, startup, pipeline>>

NextColor == ApplyColorToHex

SpecColor == InitColor /\ [][NextColor]_vars

\* ------------------------------------------------------------- pipeline
\* A reply of the agent is the tuple of its characters: a letter, white space,
\* an emoji of the classes stripEmojis names and one of none of them
MaxReplyLen == 3
EmojiClass == {"U+1F600"}
WhiteSpace == {" ", "\n"}
ReplyChars == {"a", "U+1FAE0"} \cup EmojiClass \cup WhiteSpace
Replies == SeqsUpTo(ReplyChars, MaxReplyLen)

NotEmoji(c) == c \notin EmojiClass
NotWhiteSpace(c) == c \notin WhiteSpace

\* text.replace(/\s+/g, ' ')
RECURSIVE CollapseWhiteSpace(_)
CollapseWhiteSpace(text) ==
  IF text = <<>> THEN <<>>
  ELSE IF text[1] \in WhiteSpace
  THEN IF Len(text) > 1 /\ text[2] \in WhiteSpace
       THEN CollapseWhiteSpace(Tail(text))
       ELSE <<" ">> \o CollapseWhiteSpace(Tail(text))
  ELSE <<text[1]>> \o CollapseWhiteSpace(Tail(text))

\* text.trim()
RECURSIVE trim(_)
trim(text) ==
  IF text = <<>> THEN <<>>
  ELSE IF text[1] \in WhiteSpace THEN trim(Tail(text))
  ELSE IF text[Len(text)] \in WhiteSpace THEN trim(SubSeq(text, 1, Len(text) - 1))
  ELSE text

\* Mutant: the text is spoken as it is displayed
stripEmojisKeepsText(text) == text

\* stripEmojis (text-processing.ts)
stripEmojis(text) == trim(CollapseWhiteSpace(SelectSeq(text, NotEmoji)))

\* processResponseText (text-processing.ts)
processResponseText(text) == [display |-> text, speech |-> stripEmojis(text)]

\* What voiceAgent.processMessage can throw: an Error, or a value that is none
AgentThrown == {[isError |-> TRUE, message |-> "Failed to generate response"],
                [isError |-> FALSE, message |-> NoError]}

\* responsePipeline.process(message) is called (response-pipeline.ts:33-42)
PipelineProcess ==
  /\ pipeline.pc = "idle"
  /\ pipeline' = [pipeline EXCEPT !.pc = "agent"]
  /\ UNCHANGED <<serverVars, startup, conversion>>

\* voiceAgent.processMessage returns text: the text is processed, textToSpeech
\* is called with the speech text and the result returned
\* (response-pipeline.ts:44-60, tts textToSpeech)
AgentReturns(text) ==
  /\ pipeline.pc = "agent"
  /\ LET processedText == processResponseText(text) IN
     pipeline' = [pipeline EXCEPT !.pc = "done", !.reply = text,
                                  !.ttsCalls = Append(@, processedText.speech),
                                  !.outcome = "resolved",
                                  !.displayText = processedText.display,
                                  !.speechText = processedText.speech,
                                  !.ttsText = processedText.speech]
  /\ UNCHANGED <<serverVars, startup, conversion>>

\* voiceAgent.processMessage throws: the catch of process
\* (response-pipeline.ts:61-64)
AgentThrows(e) ==
  /\ pipeline.pc = "agent"
  /\ pipeline' = [pipeline EXCEPT !.pc = "done", !.outcome = "rejected",
                                  !.error = "Pipeline error: " \o
                                     (IF e.isError THEN e.message ELSE "Unknown error")]
  /\ UNCHANGED <<serverVars, startup, conversion>>

NextPipeline ==
  \/ PipelineProcess
  \/ \E text \in Replies : AgentReturns(text)
  \/ \E e \in AgentThrown : AgentThrows(e)

SpecPipeline == Init /\ [][NextPipeline]_vars

\* ------------------------------------------------------------- claims
PromiseOf(r) == promises[<<r, runs[r].k>>]

\* C1: an executionId is never reused while its entry is still present: an entry
\* that stays in a pending map keeps the call (promise) it was recorded for.
C1_IdNeverReusedWhilePresent ==
  [][\A s \in Sockets : \A id \in DOMAIN pendingToolExecutions[s] :
       id \in DOMAIN pendingToolExecutions'[s]
         => pendingToolExecutions'[s][id] = pendingToolExecutions[s][id]]_vars

C3_SettledOnceTimerFired ==
  \A p \in DOMAIN promises :
    promises[p].state = "pending" => \E t \in timers : t.promise = p

\* C4: a tool-result whose executionId is absent from the socket's pending map
\* changes nothing: pending maps, promises, timers, runs and history stay as they are.
\* (No step that changes a pending map or a promise is the handling of such a
\* tool-result; the handler touches nothing else.)
CorrelatorChanged ==
  pendingToolExecutions' # pendingToolExecutions \/ promises' # promises

C4_AbsentIdNoEffect ==
  [][CorrelatorChanged =>
       \A s \in Sockets : \A data \in PeerToolResults :
         ~MapHas(pendingToolExecutions[s], data.executionId) => ~OnPeerToolResult(s, data)]_vars

C4_Witness ==
  /\ discarded
  /\ \E p \in DOMAIN promises : promises[p].state = "pending"

\* C5: after a disconnect no entry of that peer remains pending.
C5_DisconnectRejectsPending ==
  \A s \in Sockets : sockState[s] = "disconnected" => pendingToolExecutions[s] = EmptyMap

\* C6: once a matching tool-result has settled an execution, no timeout of that
\* execution remains armed.
C6_TimerCancelledOnCompletion ==
  \A t \in timers : promises[t.promise].state = "pending"

C8_HistoryPrivatePerConnection ==
  [][\A s, t \in Sockets :
       (s # t /\ sockState[s] = "connected" /\ (OnPeerUserMessage(t) \/ OnClearHistory(t)))
         => getHistory(s)' = getHistory(s)]_vars

\* C9: at most one processMessage run is in progress per connection at any time.
C9_OneOrchestrationAtATime ==
  \A r1, r2 \in Runs :
    (Running(r1) /\ Running(r2) /\ runs[r1].sock = runs[r2].sock) => r1 = r2

\* C10: when the delegated call a run awaits was rejected by its timeout, the run
\* takes the rejection as the failed result {success: false, error: 'Tool execution
\* timeout'} and goes on, to the Conversation Stage when that was its last action;
\* it does not throw because of the timeout.
C10_TimeoutDegradesToFailedResult ==
  [][\A r \in Runs :
       (runs[r].pc = "tool" /\ PromiseOf(r).state = "rejected"
          /\ PromiseOf(r).error = "Tool execution timeout" /\ runs'[r] # runs[r])
         => \/ /\ runs'[r].pc \in {"tool", "conv"}
               /\ Len(runs'[r].toolResults) > Len(runs[r].toolResults)
               /\ runs'[r].toolResults[Len(runs[r].toolResults) + 1]
                    = Failure("Tool execution timeout")
               /\ runs[r].k = Len(runs[r].toolCalls) => runs'[r].pc = "conv"
            \/ /\ runs[r].k < Len(runs[r].toolCalls)
               /\ runs'[r].outcome = "error:parse"]_vars

C10_Witness ==
  \E r \in Runs :
    /\ runs[r].pc = "conv"
    /\ \E i \in 1..Len(runs[r].toolResults) :
         runs[r].toolResults[i] = Failure("Tool execution timeout")

\* The names the registry's switch knows (registry.ts:37-39)
Registered(tc) == tc.name = "changeBackgroundColor"

\* Run r takes a step of its tool loop and goes on (to the next await or to the
\* Conversation Stage)
ToolLoopStep(r) ==
  /\ runs[r].pc \in {"router", "tool"}
  /\ runs'[r] # runs[r]
  /\ runs'[r].pc \in {"tool", "conv"}
  /\ runs'[r].branch = "A"

\* C11: a requested action whose name is not registered gets the failed result
\* {success: false, error: 'Unknown tool: <name>'}; nothing is sent to the peer
\* and nothing is recorded as pending for it (a step of the tool loop sends an
\* execute-tool only for the registered call it then awaits); the turn is not
\* aborted by it and reaches the Conversation Stage when it was the last action.
C11_UnknownActionFailsTurnContinues ==
  [][\A r \in Runs :
       /\ ToolLoopStep(r) =>
            LET tcs == runs'[r].toolCalls
                results == runs'[r].toolResults IN
            /\ \A k \in 1..Len(results) :
                 ~Registered(tcs[k]) =>
                   results[k] = Failure("Unknown tool: " \o tcs[k].name)
            /\ Len(results) = Len(tcs) => runs'[r].pc = "conv"
            /\ (toClient' # toClient \/ pendingToolExecutions' # pendingToolExecutions
                  \/ timers' # timers \/ promises' # promises)
                 => runs'[r].pc = "tool" /\ Registered(tcs[runs'[r].k])
            /\ (\A k \in 1..Len(tcs) : ~Registered(tcs[k]))
                 => /\ runs'[r].pc = "conv"
                    /\ UNCHANGED <<toClient, pendingToolExecutions, timers, promises>>
       /\ (runs[r].pc \in {"router", "tool"} /\ runs'[r].pc = "done")
            => runs'[r].outcome \in {"error:router", "error:parse"}]_vars

C11_Witness ==
  \E r \in Runs :
    /\ runs[r].pc = "conv"
    /\ Len(runs[r].toolCalls) = MaxAnyToolCalls
    /\ \E k \in 1..Len(runs[r].toolResults) :
         /\ ~Registered(runs[r].toolCalls[k])
         /\ runs[r].toolResults[k] = Failure("Unknown tool: playMusic")
    /\ \E k \in 1..Len(runs[r].toolResults) : runs[r].toolResults[k].success

\* ToolExecutionResult values: a success, or a failure that says why
IsActionResult(x) ==
  /\ DOMAIN x = {"success", "result", "error"}
  /\ x.success \in BOOLEAN
  /\ ~x.success => (x.error # NoError /\ x.result = Undefined)

\* C12: executeTool never rejects: no turn is aborted by a throw of the registry,
\* and whatever the request (known or not, colour valid, missing or no string)
\* and however the delegated call ended (success reply, failure reply, timeout),
\* the tool loop got a ToolExecutionResult for every call it has dispatched.
C12_DispatchAlwaysResolves ==
  \A r \in Runs :
    /\ runs[r].outcome # "error:tool"
    /\ \A k \in 1..Len(runs[r].toolResults) : IsActionResult(runs[r].toolResults[k])
    /\ runs[r].pc = "conv" /\ runs[r].branch = "A"
         => Len(runs[r].toolResults) = Len(runs[r].toolCalls)

C12_Witness ==
  \E r \in Runs :
    /\ runs[r].pc = "conv"
    /\ runs[r].toolResults = <<Failure("TypeError"), Failure("Tool execution failed")>>

\* A changeBackgroundColor request whose colour is missing or is no string
InvalidColor(tc) == Registered(tc) /\ tc.color.t # "string"

\* C13: a changeBackgroundColor request whose colour is missing or no string gets
\* a failed result and never reaches the peer: the step of the tool loop that
\* dispatches it emits execute-tool and records a pending entry (promise, timer)
\* only for a call with a string colour, which it then awaits.
C13_InvalidColorNeverDelegated ==
  [][\A r \in Runs :
       ToolLoopStep(r) =>
         LET tcs == runs'[r].toolCalls
             results == runs'[r].toolResults IN
         /\ \A k \in 1..Len(results) :
              InvalidColor(tcs[k]) => results[k] = Failure("TypeError")
         /\ runs'[r].pc = "tool" => ~InvalidColor(tcs[runs'[r].k])
         /\ (toClient' # toClient \/ pendingToolExecutions' # pendingToolExecutions
               \/ timers' # timers \/ promises' # promises)
              => runs'[r].pc = "tool" /\ runs'[r].k = Len(results) + 1
         /\ (\A k \in 1..Len(tcs) : InvalidColor(tcs[k]))
              => /\ runs'[r].pc = "conv"
                 /\ UNCHANGED <<toClient, pendingToolExecutions, timers, promises>>]_vars

C13_Witness ==
  \E r \in Runs :
    /\ runs[r].pc = "conv"
    /\ Len(runs[r].toolCalls) = MaxAnyToolCalls
    /\ runs[r].toolCalls[1].color = UndefinedValue
    /\ runs[r].toolCalls[MaxAnyToolCalls].color = NumberValue
    /\ \A k \in 1..MaxAnyToolCalls :
         InvalidColor(runs[r].toolCalls[k]) /\ ~runs[r].toolResults[k].success
    /\ promises = EmptyMap /\ timers = {}
    /\ \A s \in Sockets : pendingToolExecutions[s] = EmptyMap

\* C14: a turn is aborted only by a failure of the router's or of the
\* conversation model's backend call; an action-level failure (unparsable
\* arguments included) never aborts it.
C14_OnlyBackendFailureAborts ==
  \A r \in Runs :
    runs[r].pc = "done" => runs[r].outcome \in {"ok", "error:router", "error:conv"}

Min(a, b) == IF a < b THEN a ELSE b

\* The most recent min(n, maxHistoryLength) user/agent pairs of utterances 1..n
ExactHistory(n) ==
  LET m == Min(n, maxHistoryLength) IN
  [i \in 1..(2 * m) |-> [role |-> IF i % 2 = 1 THEN "user" ELSE "assistant",
                          content |-> n - m + ((i + 1) \div 2)]]

\* Run r completes its turn: the Conversation Stage has answered
TurnCompletes(r) ==
  runs[r].pc = "conv" /\ runs'[r].pc = "done" /\ runs'[r].outcome = "ok"

\* C15: retention is exact.  When the history held exactly the most recent
\* min(N-1, B) pairs and the user turn of utterance N, then after turn N completes
\* it holds exactly the most recent min(N, B) pairs, whichever branch N took
\* (B = maxHistoryLength pairs; the induction step of the claim).
C15_RetentionExact ==
  [][\A r \in Runs :
       (TurnCompletes(r)
          /\ conversationHistory = addToHistory(ExactHistory(runs[r].utterance - 1),
                                                "user", runs[r].utterance))
         => conversationHistory' = ExactHistory(runs[r].utterance)]_vars

\* C16: the history never holds more than maxHistoryLength exchanges
C16_HistoryBounded ==
  Len(conversationHistory) <= 2 * maxHistoryLength

IsSuffix(a, b) == Len(a) <= Len(b) /\ a = SubSeq(b, Len(b) - Len(a) + 1, Len(b))

\* C17: retention only drops the oldest turns.  The history a completed turn
\* leaves is a suffix of the history with the agent turn appended, and it ends
\* with that agent turn; no other step of processMessage shortens the history.
C17_RetentionDropsOldestOnly ==
  [][/\ \A r \in Runs :
          TurnCompletes(r) =>
            LET appended == addToHistory(conversationHistory, "assistant", runs[r].utterance) IN
            /\ IsSuffix(conversationHistory', appended)
            /\ conversationHistory' # <<>>
            /\ conversationHistory'[Len(conversationHistory')]
                 = appended[Len(appended)]
     /\ Len(conversationHistory') < Len(conversationHistory)
          => \E r \in Runs : TurnCompletes(r)]_vars

\* The third turn has completed in branch A and the history was cut to its
\* last two entries
C17_Witness ==
  /\ nextUtterance > HistoryKeep
  /\ \E r \in Runs : runs[r].pc = "done" /\ runs[r].outcome = "ok" /\ runs[r].branch = "A"
  /\ conversationHistory = <<[role |-> "user", content |-> nextUtterance],
                             [role |-> "assistant", content |-> nextUtterance]>>

\* The router's or the conversation model's backend call of run r fails
BackendFails(r) ==
  /\ runs[r].pc \in {"router", "conv"}
  /\ runs'[r].pc = "done"
  /\ runs'[r].outcome \in {"error:router", "error:conv"}

\* C18: when the backend call of the Decision or of the Conversation Stage fails,
\* the turn ends in an error, the history is left as it was, its last entry being
\* the user turn of that utterance, and it holds no agent turn for the utterance.
C18_BackendFailureKeepsUserTurn ==
  [][\A r \in Runs :
       BackendFails(r) =>
         /\ conversationHistory' = conversationHistory
         /\ conversationHistory' # <<>>
         /\ conversationHistory'[Len(conversationHistory')]
              = [role |-> "user", content |-> runs[r].utterance]
         /\ \A i \in 1..Len(conversationHistory') :
              conversationHistory'[i] # [role |-> "assistant", content |-> runs[r].utterance]]_vars

C18_Witness ==
  /\ \E r \in Runs : /\ runs[r].pc = "done" /\ runs[r].outcome = "error:conv"
                      /\ runs[r].branch = "A" /\ runs[r].utterance = nextUtterance
  /\ Len(conversationHistory) > HistoryKeep
  /\ conversationHistory[Len(conversationHistory)]
       = [role |-> "user", content |-> nextUtterance]
  /\ conversationHistory[Len(conversationHistory) - 1]
       = [role |-> "user", content |-> nextUtterance - 1]

\* The entries of history h that belong to utterance u
TurnsOf(h, u) == {i \in 1..Len(h) : h[i].content = u}

C20_NoActionNoDelegation ==
  \A r \in Runs :
    runs[r].branch = "B" =>
      /\ runs[r].pc \in {"conv", "done"}
      /\ runs[r].outcome \in {"none", "ok", "error:conv"}
      /\ runs[r].toolCalls = <<>> /\ runs[r].toolResults = <<>>
      /\ promises = EmptyMap /\ timers = {}
      /\ \A s \in Sockets :
           /\ pendingToolExecutions[s] = EmptyMap
           /\ \A i \in 1..Len(toClient[s]) : toClient[s][i].type # "execute-tool"
           /\ \A i \in 1..Len(toServer[s]) : toServer[s][i].type # "tool-result"

C20_Witness ==
  /\ \E r \in Runs : runs[r].pc = "done" /\ runs[r].branch = "B" /\ runs[r].outcome = "ok"
  /\ conversationHistory = ExactHistory(1)
  /\ \E s \in Sockets : /\ toClient[s] # <<>>
                         /\ toClient[s][Len(toClient[s])].type = "agent-response"

\* The result the tool loop must hold for call k of run r, a call it has dispatched
ResultOfCall(r, k) ==
  LET tc == runs[r].toolCalls[k] IN
  IF ~Registered(tc) THEN Failure("Unknown tool: " \o tc.name)
  ELSE IF InvalidColor(tc) THEN Failure("TypeError")
  ELSE DelegatedResult(promises[<<r, k>>])

\* C21: the actions of one turn are dispatched one after the other in request
\* order (call k is awaited with the results of calls 1..k-1 in hand and no other
\* call of the turn outstanding), the execution ids of the turn's delegated calls
\* are distinct, and result k is the result of call k.
C21_SequentialDistinctInOrder ==
  \A r \in Runs :
    /\ runs[r].pc = "tool" => Len(runs[r].toolResults) = runs[r].k - 1
    /\ \A k \in 1..MaxAnyToolCalls :
         (<<r, k>> \in DOMAIN promises /\ promises[<<r, k>>].state = "pending")
           => runs[r].pc = "tool" /\ runs[r].k = k
    /\ \A k \in 1..Len(runs[r].toolResults) : runs[r].toolResults[k] = ResultOfCall(r, k)
    /\ \A t1, t2 \in timers :
         (t1.promise[1] = r /\ t2.promise[1] = r /\ t1.promise # t2.promise)
           => t1.executionId # t2.executionId

\* The steps of an utterance are in the order of processMessage: the user turn
\* is in the history from the start, actions are dispatched only in branch A,
\* the Conversation Stage is called only once every dispatch has completed, and
\* the agent turn is in the history only once the reply is returned.
StepsInOrder(r) ==
  LET u == runs[r].utterance IN
  /\ runs[r].pc # "idle" => [role |-> "user", content |-> u] \in
                              {conversationHistory[i] : i \in 1..Len(conversationHistory)}
  /\ runs[r].pc = "router" => runs[r].branch = "none" /\ runs[r].toolResults = <<>>
  /\ runs[r].pc = "tool" => runs[r].branch = "A" /\ runs[r].toolCalls # <<>>
  /\ (runs[r].pc = "conv" /\ runs[r].branch = "A")
       => /\ Len(runs[r].toolResults) = Len(runs[r].toolCalls)
          /\ \A k \in 1..Len(runs[r].toolCalls) :
               <<r, k>> \in DOMAIN promises => promises[<<r, k>>].state # "pending"
  /\ [role |-> "assistant", content |-> u] \in
       {conversationHistory[i] : i \in 1..Len(conversationHistory)}
       => runs[r].pc = "done" /\ runs[r].outcome = "ok"

\* The call run r awaits can still be completed: its timer is armed and will
\* find its entry
CanSettle(r) ==
  \E t \in timers :
    /\ t.promise = <<r, runs[r].k>>
    /\ MapHas(pendingToolExecutions[t.sock], t.executionId)
    /\ pendingToolExecutions[t.sock][t.executionId] = t.promise

\* C22: within an utterance the steps occur in the order user turn, Decision
\* Stage, action dispatches, Conversation Stage, agent turn, return; and the
\* utterance always comes to its end: a run that awaits a delegated call is never
\* left without a reply or a timeout that can release it.
C22_StepsInOrderAndBackToIdle ==
  \A r \in Runs :
    /\ StepsInOrder(r)
    /\ (runs[r].pc = "tool" /\ PromiseOf(r).state = "pending") => CanSettle(r)

\* An execute-tool message is emitted to socket s in this step
EmitsExecuteTool(s) ==
  /\ Len(toClient'[s]) = Len(toClient[s]) + 1
  /\ toClient'[s][Len(toClient'[s])].type = "execute-tool"

\* C23: when an execute-tool message is emitted, its execution id is already
\* recorded in the pending map of the socket it is emitted on, for a call that is
\* still pending; so from the moment a reply can exist the id has been recorded.
C23_RecordedBeforeEmitted ==
  [][\A s \in Sockets :
       EmitsExecuteTool(s) =>
         LET id == toClient'[s][Len(toClient'[s])].executionId IN
         /\ MapHas(pendingToolExecutions'[s], id)
         /\ promises'[pendingToolExecutions'[s][id]].state = "pending"
         /\ \E t \in timers' : t.sock = s /\ t.executionId = id
                                 /\ t.promise = pendingToolExecutions'[s][id]]_vars

\* The reply to a request is on its way to the server while the id is recorded
C23_Witness ==
  \E s \in Sockets :
    /\ toServer[s] # <<>>
    /\ Head(toServer[s]).type = "tool-result"
    /\ MapHas(pendingToolExecutions[s], Head(toServer[s]).executionId)

\* The position of a user-message handler in processMessage
Rank(pc) == CASE pc = "idle" -> 0 [] pc = "router" -> 1 [] pc = "tool" -> 2
              [] pc = "conv" -> 3 [] pc = "done" -> 4

\* C24: nothing is retried.  An invocation only moves forward (the router is
\* left once, for the tool loop, the Conversation Stage or the error; the
\* Conversation Stage is left once, for the end), the tool loop only moves to a
\* later call, also after a timeout or a failed reply; a settled call is never
\* made pending again, and a step emits at most one execute-tool, for a call
\* never dispatched before.
C24_NoRetries ==
  [][/\ \A r \in Runs :
          runs'[r] # runs[r] =>
            \/ Rank(runs'[r].pc) > Rank(runs[r].pc)
            \/ runs[r].pc = "tool" /\ runs'[r].pc = "tool" /\ runs'[r].k > runs[r].k
     /\ \A p \in DOMAIN promises :
          /\ p \in DOMAIN promises'
          /\ promises[p].state # "pending" => promises'[p].state = promises[p].state
     /\ \A s \in Sockets :
          /\ Len(toClient'[s]) <= Len(toClient[s]) + 1
          /\ EmitsExecuteTool(s) =>
               \E r \in Runs : /\ runs'[r].pc = "tool" /\ runs'[r] # runs[r]
                                /\ <<r, runs'[r].k>> \notin DOMAIN promises
     /\ timers \subseteq timers' \/ timers' \subseteq timers]_vars

\* Both calls of a turn have failed, by timeout and by a failure reply, and
\* the turn has gone on to the Conversation Stage
C24_Witness ==
  \E r \in Runs :
    /\ runs[r].pc = "conv"
    /\ Len(runs[r].toolResults) = MaxAnyToolCalls
    /\ \E k \in 1..MaxAnyToolCalls :
         runs[r].toolResults[k] = Failure("Tool execution timeout")
    /\ \E k \in 1..MaxAnyToolCalls :
         runs[r].toolResults[k] = Failure("Tool execution failed")

\* The App of socket s handles the execute-tool event at the head of its queue
HandlesExecuteTool(s) ==
  /\ sockState[s] = "connected" /\ sockState'[s] = "connected"
  /\ toClient[s] # <<>>
  /\ Head(toClient[s]).type = "execute-tool"
  /\ toClient'[s] = Tail(toClient[s])

\* C25: the frontend's execute-tool handler answers every execute-tool event with
\* exactly one tool-result that carries the executionId of the event: a success
\* for changeBackgroundColor, a failure for an unknown tool and for an execution
\* that throws.
C25_PeerRepliesOnceWithSameId ==
  [][\A s \in Sockets :
       HandlesExecuteTool(s) =>
         LET msg == Head(toClient[s]) IN
         /\ Len(toServer'[s]) = Len(toServer[s]) + 1
         /\ SubSeq(toServer'[s], 1, Len(toServer[s])) = toServer[s]
         /\ LET reply == toServer'[s][Len(toServer'[s])] IN
            /\ reply.type = "tool-result"
            /\ reply.executionId = msg.executionId
            /\ reply.success = (msg.toolName = "changeBackgroundColor"
                                 /\ msg.color # NoParameters)
            /\ ~reply.success => reply.error # NoError]_vars

\* The App has answered an unknown tool and an execution that threw
C25_Witness ==
  \E s \in Sockets :
    /\ Len(toServer[s]) = MaxInFlight
    /\ toServer[s][1].error = "Unknown tool: playMusic"
    /\ toServer[s][MaxInFlight].error = "TypeError"
    /\ toServer[s][1].executionId # toServer[s][MaxInFlight].executionId

\* The ToolExecutionResult that corresponds to a peer's tool-result
ResultOfReply(data) ==
  IF data.success THEN Success(data.result)
  ELSE Failure(IF data.error # NoError THEN data.error ELSE "Tool execution failed")

\* C26: when the reply that matches a delegated call (the tool-result with the
\* call's execution id, on the call's connection) is processed before the call's
\* deadline, the call completes with the reply's outcome: dispatch returns the
\* result with the reply's success flag, its payload or its error message.
C26_ReplyBecomesResult ==
  [][promises' # promises =>
       \A t \in timers : \A data \in PeerToolResults :
         (data.executionId = t.executionId /\ now < t.due
            /\ promises[t.promise].state = "pending" /\ OnPeerToolResult(t.sock, data))
           => /\ promises'[t.promise].state # "pending"
              /\ DelegatedResult(promises'[t.promise]) = ResultOfReply(data)]_vars

\* The tools the backend offers (tools/definitions.ts)
availableTools == {"changeBackgroundColor"}

\* The tools list handed to the model call an invocation at pc awaits:
\* routerProvider.chat(messages, availableTools), conversationProvider.chat(messages)
StageTools(pc) == IF pc = "router" THEN availableTools ELSE {}

\* Invocation r dispatches an action in this step: a new emitter promise
Dispatches(r) ==
  \/ \E p \in DOMAIN promises' \ DOMAIN promises : p[1] = r
  \/ \E p \in DOMAIN promises \cap DOMAIN promises' :
       p[1] = r /\ promises[p].state # "pending" /\ promises'[p].state = "pending"

\* C27: only the Decision Stage call is given the tools list, and only its
\* outcome dispatches: a step that dispatches is the settling of a model call
\* that was given tools, or the continuation of its tool loop.  The settling of
\* the Conversation Stage call, which is given none, ends the invocation and
\* dispatches nothing: no promise, no pending entry, no timer, no execute-tool.
C27_OnlyDecisionStageDispatches ==
  [][/\ \A r \in Runs :
          Dispatches(r) => runs[r].pc = "tool" \/ StageTools(runs[r].pc) # {}
     /\ \A s \in Sockets :
          EmitsExecuteTool(s) =>
            /\ \E r \in Runs : Dispatches(r)
            /\ toClient'[s][Len(toClient'[s])].toolName \in availableTools
     /\ \A r \in Runs :
          runs[r].pc = "conv" /\ runs'[r] # runs[r] =>
            /\ StageTools(runs[r].pc) = {}
            /\ runs'[r].pc = "done"
            /\ promises' = promises
            /\ pendingToolExecutions' = pendingToolExecutions
            /\ timers' = timers
            /\ \A s \in Sockets : ~EmitsExecuteTool(s)]_vars

\* The Conversation Stage has replied in a turn whose action was dispatched and
\* answered: the reply is out and no call is pending
C27_Witness ==
  \E r \in Runs :
    /\ runs[r].pc = "done" /\ runs[r].outcome = "ok" /\ runs[r].branch = "A"
    /\ <<r, 1>> \in DOMAIN promises /\ promises[<<r, 1>>].state = "resolved"
    /\ \A p \in DOMAIN promises : promises[p].state # "pending"

\* Invocation r awaits a delegated call that has not settled
AwaitsPendingCall(r) ==
  /\ runs[r].pc = "tool"
  /\ promises[<<r, runs[r].k>>].state = "pending"

\* C28: sessions do not block each other.  While the invocation of one
\* connection awaits a pending delegated call, the invocation of another
\* connection can take each of its own next steps: its utterance can be
\* received, its router reply taken up (whatever it is), its own settled call
\* continued and its conversation reply returned.
C28_SessionsDoNotBlock ==
  \A r1 \in Runs : \A r2 \in Runs \ {r1} :
    AwaitsPendingCall(r1) =>
      /\ (runs[r2].pc = "idle" /\ nextUtterance + 1 = r2 /\ nextUtterance < MaxRuns) =>
            \A s \in Sockets \ {runs[r1].sock} :
              (sockState[s] = "connected" /\ s \notin app) => ENABLED OnPeerUserMessage(s)
      /\ (runs[r2].pc = "router" /\ runs[r2].sock # runs[r1].sock) =>
            \A out \in RouterOutputs : ENABLED RouterReturns(r2, out)
      /\ (runs[r2].pc = "tool" /\ runs[r2].sock # runs[r1].sock
            /\ promises[<<r2, runs[r2].k>>].state # "pending") => ENABLED ToolSettled(r2)
      /\ (runs[r2].pc = "conv" /\ runs[r2].sock # runs[r1].sock) =>
            \A ok \in BOOLEAN : ENABLED ConvReturns(r2, ok)

\* One connection's call is still pending while another connection's utterance,
\* routed after that call was made, has had its own action answered and is at
\* the Conversation Stage
C28_Witness ==
  \E r1 \in Runs : \E r2 \in Runs \ {r1} :
    /\ AwaitsPendingCall(r1)
    /\ runs[r2].pc = "conv" /\ runs[r2].branch = "A"
    /\ runs[r2].sock # runs[r1].sock
    /\ runs[r2].toolResults # <<>> /\ runs[r2].toolResults[1].success
    /\ \E t1 \in timers : \E t2 \in timers :
         /\ t1.promise = <<r1, runs[r1].k>>
         /\ t2.promise = <<r2, 1>>
         /\ t1.due < t2.due /\ now < t1.due

\* The router call of invocation r settles in this step
RouterCallSettles(r) == runs[r].pc = "router" /\ runs'[r].pc # "router"

\* C29: the Decision Stage call does not change the history it is given: when
\* the router call of an invocation settles, with a reply or with an error, the
\* history has the same entries, in the same order, as before the step.
C29_RouterCallKeepsHistory ==
  [][\A r \in Runs :
       RouterCallSettles(r) =>
         /\ Len(conversationHistory') = Len(conversationHistory)
         /\ conversationHistory' = conversationHistory]_vars

\* A router call has failed on a history that holds an earlier completed turn:
\* the history ends with that turn's agent entry and this turn's user entry
C29_Witness ==
  \E r \in Runs :
    /\ runs[r].pc = "done" /\ runs[r].outcome = "error:router"
    /\ Len(conversationHistory) >= 3
    /\ conversationHistory[Len(conversationHistory)] =
         [role |-> "user", content |-> runs[r].utterance]
    /\ conversationHistory[Len(conversationHistory) - 1].role = "assistant"

\* C30: the delegated call an invocation of connection S awaits was sent on S
\* and is recorded in S's pending map only: the timer armed with the request is
\* S's, and no other connection's map holds an entry for the call.
C30_DelegatedToOwnPeer ==
  \A r \in Runs :
    AwaitsPendingCall(r) =>
      /\ \A t \in timers : t.promise = <<r, runs[r].k>> => t.sock = runs[r].sock
      /\ \A s \in Sockets \ {runs[r].sock} :
           \A id \in DOMAIN pendingToolExecutions[s] :
             pendingToolExecutions[s][id] # <<r, runs[r].k>>

\* The setTimeout callback of timer t runs in this step
TimerRuns(t) == t \in timers /\ timers' = timers \ {t}

\* C31: a deadline timer acts only on its own call.  When it runs after its call
\* has settled, the pending maps and the state of every promise stay as they
\* were; and whenever it runs, the entry of every other call that is still
\* pending stays in its map.
C31_TimerActsOnOwnCallOnly ==
  [][\A t \in timers :
       TimerRuns(t) =>
         /\ promises[t.promise].state # "pending" =>
              /\ pendingToolExecutions' = pendingToolExecutions
              /\ \A p \in DOMAIN promises : promises'[p].state = promises[p].state
         /\ \A s \in Sockets : \A id \in DOMAIN pendingToolExecutions[s] :
              (pendingToolExecutions[s][id] # t.promise
                 /\ promises[pendingToolExecutions[s][id]].state = "pending")
                => /\ MapHas(pendingToolExecutions'[s], id)
                   /\ pendingToolExecutions'[s][id] = pendingToolExecutions[s][id]]_vars

\* Some connection's pending map holds an entry for promise p
HasEntry(p) ==
  \E s \in Sockets : \E id \in DOMAIN pendingToolExecutions[s] :
    pendingToolExecutions[s][id] = p

\* C32: an execution id is in the pending map exactly while the promise created
\* for that execution is unsettled.  For every call whose deadline timer has not
\* run yet, the call's id is in its connection's map if and only if the call's
\* promise is pending; every entry is the entry of a pending promise; and once
\* every deadline timer has run the maps are empty.
C32_PendingIffUnsettled ==
  /\ \A t \in timers :
       MapHas(pendingToolExecutions[t.sock], t.executionId)
         <=> promises[t.promise].state = "pending"
  /\ \A p \in DOMAIN promises : HasEntry(p) => promises[p].state = "pending"
  /\ timers = {} => \A s \in Sockets : DOMAIN pendingToolExecutions[s] = {}

\* The events the server emits to socket s in this step (none, or the one the
\* step appends; a closed connection is sent nothing)
EmittedTo(s) ==
  IF Len(toClient'[s]) = Len(toClient[s]) + 1
  THEN {toClient'[s][Len(toClient'[s])]}
  ELSE {}

Reachable(s) == sockState[s] = "connected" /\ s \in app

\* The call invocation r awaits can no longer settle: no entry holds its
\* resolver and its timer has run
Abandoned(r) ==
  /\ AwaitsPendingCall(r)
  /\ ~HasEntry(<<r, runs[r].k>>)
  /\ \A t \in timers : t.promise # <<r, runs[r].k>>

\* C33: every user-message gets agent-processing first and then exactly one of
\* agent-response and agent-error.  The step that takes the message in emits
\* agent-processing; the step that ends the invocation emits agent-response if
\* it ended well and agent-error otherwise; no other step emits either of them;
\* an invocation that has ended emits nothing more; and an invocation never
\* waits on a call that neither a reply nor its timer can settle any more.
C33_ProcessingThenOneOutcome ==
  [][/\ \A r \in Runs :
          /\ (runs[r].pc = "idle" /\ runs'[r].pc # "idle") =>
                /\ runs'[r].pc = "router"
                /\ Reachable(runs'[r].sock) =>
                     EmittedTo(runs'[r].sock) = {AgentProcessingMsg(runs'[r].utterance)}
          /\ (Running(r) /\ runs'[r].pc = "done" /\ Reachable(runs[r].sock)) =>
                EmittedTo(runs[r].sock) =
                  {IF runs'[r].outcome = "ok"
                   THEN AgentResponseMsg(runs[r].utterance)
                   ELSE AgentErrorMsg(runs[r].utterance, runs'[r].outcome)}
          /\ runs[r].pc = "done" => runs'[r] = runs[r]
          /\ ~Abandoned(r)'
     /\ \A s \in Sockets : \A m \in EmittedTo(s) :
          m.type \in {"agent-response", "agent-error"} =>
            \E r \in Runs : /\ Running(r) /\ runs'[r].pc = "done"
                             /\ runs[r].sock = s /\ runs[r].utterance = m.run]_vars

\* C34: the history never starts with an assistant turn, never holds two
\* assistant turns in a row, and every assistant turn directly follows the user
\* turn it answers.
C34_AssistantFollowsItsUserTurn ==
  LET h == conversationHistory IN
  /\ h # <<>> => h[1].role # "assistant"
  /\ \A i \in 1..(Len(h) - 1) : ~(h[i].role = "assistant" /\ h[i + 1].role = "assistant")
  /\ \A i \in 2..Len(h) :
       h[i].role = "assistant" => h[i - 1] = [role |-> "user", content |-> h[i].content]

\* speech is what is left of text once the emoji are taken out: it holds none of
\* them, its words are those of text, and its white space is single spaces
\* between words
IsSpeechOf(speech, text) ==
  /\ \A i \in 1..Len(speech) : speech[i] \notin EmojiClass /\ speech[i] # "\n"
  /\ SelectSeq(speech, NotWhiteSpace) = SelectSeq(SelectSeq(text, NotEmoji), NotWhiteSpace)
  /\ speech # <<>> => speech[1] # " " /\ speech[Len(speech)] # " "
  /\ \A i \in 1..(Len(speech) - 1) : ~(speech[i] = " " /\ speech[i + 1] = " ")

C36_NoEmitterFailsAtOnce ==
  [][\A r \in Runs :
       (ToolLoopStep(r) /\ frontendToolEmitter = NoSocket) =>
         LET tcs == runs'[r].toolCalls
             results == runs'[r].toolResults IN
         /\ runs'[r].pc = "conv"
         /\ Len(results) = Len(tcs)
         /\ \A k \in 1..Len(tcs) :
              Registered(tcs[k]) =>
                results[k] = Failure("Frontend tool emitter not configured")
         /\ pendingToolExecutions' = pendingToolExecutions
         /\ promises' = promises /\ timers' = timers
         /\ toClient' = toClient /\ now' = now]_vars

\* With no emitter configured a turn has reached the Conversation Stage with
\* the failed result for its changeBackgroundColor request, nothing pending
C36_Witness ==
  /\ frontendToolEmitter = NoSocket
  /\ \E r \in Runs :
       /\ runs[r].pc = "conv"
       /\ runs[r].toolCalls =
            <<ToolCallOf("changeBackgroundColor", "object", StringValue(Blue))>>
       /\ runs[r].toolResults = <<Failure("Frontend tool emitter not configured")>>
  /\ DOMAIN promises = {} /\ timers = {}
  /\ \A s \in Sockets : DOMAIN pendingToolExecutions[s] = {}

\* C37: the server listens only after the connection tests of both models have
\* succeeded, and a failed test ends the process with status 1 before any
\* connection: a process that listens, or that has a connection, has both tests
\* passed and has not exited; a process in which a test failed has exited with
\* status 1 once both have settled, and has never had a connection.
C37_ListensOnlyAfterTests ==
  /\ (startup.pc = "listening" \/ \E s \in Sockets : sockState[s] # "new") =>
       /\ startup.routerConnected /\ startup.conversationConnected
       /\ startup.pc = "listening" /\ startup.exitCode = NoExit
  /\ startup.pc = "exited" =>
       /\ ~(startup.routerConnected /\ startup.conversationConnected)
       /\ startup.exitCode = 1
       /\ \A s \in Sockets : sockState[s] = "new"
  /\ (startup.pc \notin {"router-test", "conversation-test"}
        /\ ~(startup.routerConnected /\ startup.conversationConnected)) =>
       startup.pc = "exited"

\* Both tests have passed and a client is connected
C37_Witness ==
  /\ startup.pc = "listening"
  /\ startup.routerConnected /\ startup.conversationConnected
  /\ \E s \in Sockets : sockState[s] = "connected"

\* C38: colorToHex is conservative and idempotent.  Applied once, a value that
\* starts with '#' comes back unchanged, a colour name of the map comes back as
\* its hex code whatever its case, and any other string comes back unchanged;
\* applied to its own result it returns that result again.
C38_ColorToHexIdempotent ==
  LET c == conversion.input
      known == ~StartsWith(c, "#") /\ toLowerCase(c) \in DOMAIN colorMap IN
  /\ conversion.applied = 1 =>
       conversion.output = IF known THEN colorMap[toLowerCase(c)] ELSE c
  /\ conversion.applied = 2 =>
       conversion.output = IF known THEN colorMap[toLowerCase(c)] ELSE c

====
